---- MODULE Spec2Model ----
(***************************************************************************)
(* A model of the colour library's Rec. 2020 transfer functions            *)
(* (colour/models/dataset/rec_2020.py), its verbose utilities              *)
(* (colour/utilities/verbose.py) and the OSA UCS transform                 *)
(* (colour/models/osa_ucs.py).                                             *)
(*                                                                         *)
(* Real numbers are fixed-point integers: a real r is the integer          *)
(* floor(r * RS).  Powers and roots are exact floors, computed on          *)
(* arbitrary-precision naturals (sequences of base-1000 limbs), so that no *)
(* intermediate value overflows.                                           *)
(***************************************************************************)
EXTENDS Integers, Sequences, FiniteSets, TLC

VARIABLES
    rec_pc,        \* "idle" | "encoded" | "decoded"
    rec_value,     \* the linear value given to REC_2020_TRANSFER_FUNCTION
    rec_bits,      \* is_10_bits_system
    rec_encoded,   \* the value REC_2020_TRANSFER_FUNCTION returned
    rec_decoded,   \* the value REC_2020_INVERSE_TRANSFER_FUNCTION returned
    rec_fwd,       \* the branch the transfer function took
    rec_inv        \* the branch the inverse transfer function took

rec_vars == <<rec_pc, rec_value, rec_bits, rec_encoded, rec_decoded, rec_fwd, rec_inv>>

VARIABLES
    warnings_filters,      \* warnings.filters: a reference to a list object
    heap,                  \* the list objects: reference -> list of filters
    warnings_showwarning,  \* warnings.showwarning: the hook in place
    registry,              \* whether the warning() call site is in its
                           \* module's __warningregistry__
    sw_stack,              \* the suppress_warnings blocks entered and not left
    w_last,                \* the operation last performed and what it gave
    w_installed,           \* the action the latest filter_warnings call installed
    w_steps                \* the number of operations performed

warn_vars ==
    <<warnings_filters, heap, warnings_showwarning, registry, sw_stack, w_last,
      w_installed, w_steps>>

VARIABLES
    np_options,    \* Numpy's print options: option -> value
    np_stack,      \* the numpy_print_options blocks entered and not left
    np_last,       \* the operation last performed
    np_steps       \* the number of operations performed

np_vars == <<np_options, np_stack, np_last, np_steps>>

VARIABLES
    box_pc,        \* "call" | "returned" | "raised"
    box_message,   \* the message, a sequence of characters
    box_width,     \* width
    box_padding,   \* padding
    box_printed,   \* the arguments print_callable was called with, in order
    box_returned   \* the value message_box returned

box_vars == <<box_pc, box_message, box_width, box_padding, box_printed, box_returned>>

VARIABLES
    osa_pc,        \* "start" | "converted" | "inverted"
    osa_XYZ,       \* the array given to XYZ_to_OSA_UCS
    osa_Ljg,       \* the array it returned, given to OSA_UCS_to_XYZ
    osa_out,       \* the array OSA_UCS_to_XYZ returned
    osa_given,     \* the optimisation_parameters the caller passes
    osa_params,    \* the caller's optimisation_parameters dictionary object
    osa_calls      \* the calls of scipy.optimize.fmin made, in order

osa_vars == <<osa_pc, osa_XYZ, osa_Ljg, osa_out, osa_given, osa_params, osa_calls>>

vars == <<rec_vars, warn_vars, np_vars, box_vars, osa_vars>>

\* What an operation of one part leaves alone: the other parts.
RecFrame == UNCHANGED <<warn_vars, np_vars, box_vars, osa_vars>>
WarnFrame == UNCHANGED <<rec_vars, np_vars, box_vars, osa_vars>>
NpFrame == UNCHANGED <<rec_vars, warn_vars, box_vars, osa_vars>>
BoxFrame == UNCHANGED <<rec_vars, warn_vars, np_vars, osa_vars>>
OsaFrame == UNCHANGED <<rec_vars, warn_vars, np_vars, box_vars>>

----------------------------------------------------------------------------
(* Fixed-point arithmetic.                                                 *)

Base == 10 * 10 * 10
\* The fixed-point scale: 10^6, two limbs.
RS == Base * Base

Abs(n) == IF n < 0 THEN -n ELSE n

\* a * m for a natural a given as little-endian limbs and an integer 0 <= m <= 2 * RS.
RECURSIVE BigMulSmallFrom(_, _, _, _)
BigMulSmallFrom(a, m, i, carry) ==
    IF i > Len(a)
    THEN IF carry = 0 THEN << >>
         ELSE <<carry % Base>> \o BigMulSmallFrom(a, m, i, carry \div Base)
    ELSE LET t == a[i] * m + carry
         IN  <<t % Base>> \o BigMulSmallFrom(a, m, i + 1, t \div Base)

BigMulSmall(a, m) == IF m = 0 THEN << >> ELSE BigMulSmallFrom(a, m, 1, 0)

RECURSIVE BigPow(_, _)
BigPow(z, n) == IF n = 0 THEN <<1>> ELSE BigMulSmall(BigPow(z, n - 1), z)

\* a * Base^k
BigShift(a, k) == IF a = << >> THEN a ELSE [i \in 1..k |-> 0] \o a

RECURSIVE BigLeqFrom(_, _, _)
BigLeqFrom(a, b, i) ==
    IF i = 0 THEN TRUE
    ELSE IF a[i] # b[i] THEN a[i] < b[i]
    ELSE BigLeqFrom(a, b, i - 1)

BigLeq(a, b) ==
    IF Len(a) # Len(b) THEN Len(a) < Len(b) ELSE BigLeqFrom(a, b, Len(a))

\* The value of a natural given as limbs (it must fit an integer).
RECURSIVE BigToInt(_)
BigToInt(a) == IF a = << >> THEN 0 ELSE a[1] + Base * BigToInt(Tail(a))

\* floor(a / d) for a natural a given as limbs and 0 < d <= 2 * RS, by long
\* division from the top limb (the quotient must fit an integer).
RECURSIVE BigDivSmallFrom(_, _, _, _, _)
BigDivSmallFrom(a, d, i, rem, quot) ==
    IF i = 0 THEN quot
    ELSE LET t == rem * Base + a[i]
         IN  BigDivSmallFrom(a, d, i - 1, t % d, quot * Base + (t \div d))

\* floor(a * b / RS) for fixed-point a, b >= 0 (b <= 2 * RS).
FMul(a, b) ==
    LET prod == BigMulSmall(BigMulSmall(<<1>>, a), b)
    IN  IF Len(prod) <= 2 THEN 0 ELSE BigToInt(SubSeq(prod, 3, Len(prod)))

\* floor(a * RS / b) for fixed-point a >= 0, b > 0 (b <= 2 * RS).
FDiv(a, b) ==
    LET num == BigMulSmall(BigMulSmall(<<1>>, a), RS)
    IN  BigDivSmallFrom(num, b, Len(num), 0, 0)

\* z^q * scale^p <= bound, where the scale is Base^limbs and bound is
\* x^p * scale^q as limbs: that is, (z / scale)^q <= (x / scale)^p.
PowLeq(z, bound, p, q, limbs) ==
    BigLeq(BigShift(BigPow(z, q), limbs * p), bound)

RECURSIVE RootSearch(_, _, _, _, _, _)
RootSearch(bound, p, q, limbs, lo, hi) ==
    IF lo = hi THEN lo
    ELSE LET mid == (lo + hi + 1) \div 2
         IN  IF PowLeq(mid, bound, p, q, limbs)
             THEN RootSearch(bound, p, q, limbs, mid, hi)
             ELSE RootSearch(bound, p, q, limbs, lo, mid - 1)

\* floor(scale * (x / scale)^(p / q)) for a fixed-point 0 <= x and a result
\* of at most hi, the scale being Base^limbs.
FPowAt(x, p, q, limbs, hi) ==
    LET bound == BigShift(BigPow(x, p), limbs * q)
    IN  RootSearch(bound, p, q, limbs, 0, hi)

\* floor(RS * (x / RS)^(p / q)) for a fixed-point 0 <= x <= 2 * RS.
FPow(x, p, q) == FPowAt(x, p, q, 2, 2 * RS)

----------------------------------------------------------------------------
(* Rec. 2020 transfer functions (colour/models/dataset/rec_2020.py).       *)

\* The alpha constants with the two bit depths exchanged.
alpha_swapped(x) == IF x THEN 10993 * (Base \div 10) ELSE 1099 * Base

\* REC_2020_CONSTANTS.alpha(x): 1.099 if x else 1.0993
alpha(x) == IF x THEN 1099 * Base ELSE 10993 * (Base \div 10)

\* REC_2020_CONSTANTS.beta(x): 0.018 if x else 0.0181
beta(x) == IF x THEN 18 * Base ELSE 181 * (Base \div 10)

\* value ** 0.45
Pow045(value) == FPow(value, 9, 20)

\* value ** (1 / 0.45)
PowInv045(value) == FPow(value, 20, 9)

\* value * 4.5 and value / 4.5
Mul45(value) == (value * 45) \div 10
Div45(value) == (value * 10) \div 45

\* The condition with the breakpoint itself on the linear branch.
TransferIsLinear_inclusive(value, is_10_bits_system) ==
    value <= beta(is_10_bits_system)

\* The condition of the conditional expression of _rec_2020_transfer_function.
TransferIsLinear(value, is_10_bits_system) == value < beta(is_10_bits_system)

\* _rec_2020_transfer_function: the value returned and the branch taken.
rec_2020_transfer_function(value, is_10_bits_system) ==
    IF TransferIsLinear(value, is_10_bits_system)
    THEN [out |-> Mul45(value), branch |-> "linear"]
    ELSE [out |-> FMul(Pow045(value), alpha(is_10_bits_system))
                  - (alpha(is_10_bits_system) - RS),
          branch |-> "power"]

\* The condition of the conditional expression of
\* _rec_2020_inverse_transfer_function.
InverseIsLinear(value, is_10_bits_system) == value < beta(is_10_bits_system)

\* _rec_2020_inverse_transfer_function: the value returned and the branch taken.
rec_2020_inverse_transfer_function(value, is_10_bits_system) ==
    IF InverseIsLinear(value, is_10_bits_system)
    THEN [out |-> Div45(value), branch |-> "linear"]
    ELSE [out |-> PowInv045(FDiv(value + (alpha(is_10_bits_system) - RS),
                                 alpha(is_10_bits_system))),
          branch |-> "power"]

REC_2020_TRANSFER_FUNCTION(value, is_10_bits_system) ==
    rec_2020_transfer_function(value, is_10_bits_system)

REC_2020_INVERSE_TRANSFER_FUNCTION(value, is_10_bits_system) ==
    rec_2020_inverse_transfer_function(value, is_10_bits_system)

\* The linear values the transfer function is applied to: a coarse grid over
\* [0, 1], a fine grid over the toe of the curve, and both breakpoints.
RecGridN == 20
RecFineN == 25
RecInputs ==
    {(k * RS) \div RecGridN : k \in 0..RecGridN}
        \cup {k * Base : k \in 0..RecFineN}
        \cup {beta(TRUE), beta(FALSE)}

\* A caller encodes the linear value.
RecEncode ==
    /\ rec_pc = "idle"
    /\ LET r == REC_2020_TRANSFER_FUNCTION(rec_value, rec_bits)
       IN  /\ rec_encoded' = r.out
           /\ rec_fwd' = r.branch
    /\ rec_pc' = "encoded"
    /\ UNCHANGED <<rec_value, rec_bits, rec_decoded, rec_inv>>
    /\ RecFrame

\* A caller decodes the encoded value.
RecDecode ==
    /\ rec_pc = "encoded"
    /\ LET r == REC_2020_INVERSE_TRANSFER_FUNCTION(rec_encoded, rec_bits)
       IN  /\ rec_decoded' = r.out
           /\ rec_inv' = r.branch
    /\ rec_pc' = "decoded"
    /\ UNCHANGED <<rec_value, rec_bits, rec_encoded, rec_fwd>>
    /\ RecFrame

RecNext == RecEncode \/ RecDecode

----------------------------------------------------------------------------
(* Properties of the Rec. 2020 transfer functions.                         *)

\* What "within numeric tolerance" allows: 0.001.
RecTolerance == RS \div 1000

\* C2 (as stated): at value = beta the linear branch value 4.5 * beta equals
\* the power branch value alpha * beta ** 0.45 - (alpha - 1), for both bit
\* depths (equal to within two units of the last fixed-point digit).
C2_ContinuousAtBreakpoint ==
    (rec_pc = "encoded" /\ rec_value = beta(rec_bits))
        => Abs(rec_encoded - Mul45(rec_value)) <= 2

\* C2 (amended): at value = beta the two branch values are close but not
\* equal: for the 10 bit constants the power branch value exceeds 4.5 * beta
\* by about 0.000248, for the 12 bit constants it falls short of it by about
\* 0.000003; the jump is below 0.0003 in both cases.
C2_JumpAtBreakpoint ==
    (rec_pc = "encoded" /\ rec_value = beta(rec_bits))
        => /\ rec_fwd = "power"
           /\ IF rec_bits
              THEN /\ rec_encoded - Mul45(rec_value) >= 240
                   /\ rec_encoded - Mul45(rec_value) <= 250
              ELSE /\ Mul45(rec_value) - rec_encoded >= 1
                   /\ Mul45(rec_value) - rec_encoded <= 5

C2_Witness ==
    /\ rec_pc = "encoded"
    /\ rec_bits
    /\ rec_value = beta(TRUE)
    /\ rec_encoded > Mul45(rec_value)

\* C3: REC_2020_INVERSE_TRANSFER_FUNCTION(REC_2020_TRANSFER_FUNCTION(v))
\* returns v within numeric tolerance, for every v in [0, 1] and either bit
\* depth.
C3_RoundTrip ==
    rec_pc = "decoded" => Abs(rec_decoded - rec_value) <= RecTolerance

\* C8: the transfer function uses alpha = 1.099, beta = 0.018 for a 10 bit
\* system and alpha = 1.0993, beta = 0.0181 otherwise; it returns value * 4.5
\* when value < beta and alpha * value ** 0.45 - (alpha - 1) when
\* value >= beta, the breakpoint itself taking the power branch.
C8_TransferFunction ==
    rec_pc = "encoded" =>
        LET a == IF rec_bits THEN 1099000 ELSE 1099300
            b == IF rec_bits THEN 18000 ELSE 18100
        IN  IF rec_value < b
            THEN /\ rec_fwd = "linear"
                 /\ rec_encoded = (rec_value * 45) \div 10
            ELSE /\ rec_fwd = "power"
                 /\ rec_encoded = FMul(FPow(rec_value, 9, 20), a) - (a - 1000000)

\* The value 0.018 is below the 12 bit breakpoint and at the 10 bit one.
C8_Witness ==
    /\ rec_pc = "encoded"
    /\ ~rec_bits
    /\ rec_value = beta(TRUE)
    /\ rec_fwd = "linear"
    /\ rec_encoded = 81 * Base

\* C9: the inverse transfer function, applied to the encoded value, takes its
\* linear branch exactly when the transfer function took its linear branch.
C9_BranchConsistency ==
    rec_pc = "decoded" => (rec_inv = "linear" <=> rec_fwd = "linear")

----------------------------------------------------------------------------
(* Warning filters (colour/utilities/verbose.py).                          *)
(*                                                                         *)
(* warnings.filters names a list object, which warnings.filterwarnings     *)
(* changes in place; a filter is an (action, category) pair, the message,  *)
(* module and line number of every filter installed here being the         *)
(* defaults, which match everything.                                       *)

Filter(action, category) == [action |-> action, category |-> category]

\* issubclass(category, of): ColourWarning is a subclass of Warning.
IsSubclass(category, of) == category = of \/ of = "Warning"

RECURSIVE RemoveFirst(_, _)
RemoveFirst(list, item) ==
    IF list = << >> THEN << >>
    ELSE IF Head(list) = item THEN Tail(list)
    ELSE <<Head(list)>> \o RemoveFirst(Tail(list), item)

\* The filter put at the end of the list, as with append=True.
filterwarnings_append(list, action, category) ==
    IF \E i \in 1..Len(list) : list[i] = Filter(action, category)
    THEN list
    ELSE Append(list, Filter(action, category))

\* warnings.filterwarnings(action, category=category), on the contents of the
\* list: any equal filter is removed and the filter inserted at the front.
filterwarnings(list, action, category) ==
    <<Filter(action, category)>> \o RemoveFirst(list, Filter(action, category))

\* The action of the first filter matching a warning of the category; the
\* default action when none matches.
RECURSIVE ActionFor(_, _)
ActionFor(list, category) ==
    IF list = << >> THEN "default"
    ELSE IF IsSubclass(category, Head(list).category) THEN Head(list).action
    ELSE ActionFor(Tail(list), category)

\* The action filter_warnings installs.
FilterAction(state) == IF state THEN "ignore" ELSE "default"

\* The category filter_warnings installs it for.
FilterCategory(colour_warnings_only) ==
    IF colour_warnings_only THEN "ColourWarning" ELSE "Warning"

\* filter_warnings(state, colour_warnings_only): the heap it leaves.
filter_warnings(state, colour_warnings_only) ==
    [heap EXCEPT ![warnings_filters] =
        filterwarnings(@, FilterAction(state), FilterCategory(colour_warnings_only))]

\* The contents of the list warnings.filters names.
Filters == heap[warnings_filters]

Hooks == {"showwarning", "custom"}

\* The nesting depth of suppress_warnings blocks and the number of
\* operations explored.
MaxDepth == 2
MaxSteps == 5

\* One more operation is performed.
WarnStep == w_steps < MaxSteps /\ w_steps' = w_steps + 1

WarnInitialFilters ==
    { << >>,
      <<Filter("ignore", "DeprecationWarning")>>,
      <<Filter("ignore", "Warning")>>,
      <<Filter("default", "ColourWarning"), Filter("ignore", "DeprecationWarning")>> }

\* A caller calls filter_warnings(state, colour_warnings_only).
FilterWarnings ==
    \E state \in BOOLEAN, colour_warnings_only \in BOOLEAN :
        /\ WarnStep
        /\ heap' = filter_warnings(state, colour_warnings_only)
        /\ w_installed' = FilterAction(state)
        /\ registry' = FALSE
        /\ w_last' = [op |-> "filter_warnings", state |-> state,
                      colour_warnings_only |-> colour_warnings_only,
                      returned |-> TRUE]
        /\ UNCHANGED <<warnings_filters, warnings_showwarning, sw_stack>>
        /\ WarnFrame

\* What suppress_warnings keeps in its local variable filters.
SavedFilters == warnings_filters

\* A with-block of suppress_warnings(colour_warnings_only) is entered: the
\* code up to the yield.
SuppressEnter ==
    \E colour_warnings_only \in BOOLEAN :
        /\ WarnStep
        /\ Len(sw_stack) < MaxDepth
        /\ sw_stack' = Append(sw_stack,
                [filters |-> SavedFilters,
                 show_warnings |-> warnings_showwarning,
                 filters_at_entry |-> Filters,
                 showwarning_at_entry |-> warnings_showwarning])
        /\ heap' = filter_warnings(TRUE, colour_warnings_only)
        /\ w_installed' = FilterAction(TRUE)
        /\ registry' = FALSE
        /\ w_last' = [op |-> "enter", state |-> TRUE,
                      colour_warnings_only |-> colour_warnings_only]
        /\ UNCHANGED <<warnings_filters, warnings_showwarning>>
        /\ WarnFrame

\* The innermost with-block is left, normally or by an exception raised in
\* its body: the finally clause.
SuppressExit ==
    \E raised \in BOOLEAN :
        /\ WarnStep
        /\ sw_stack # << >>
        /\ LET frame == sw_stack[Len(sw_stack)]
           IN  /\ warnings_filters' = frame.filters
               /\ warnings_showwarning' = frame.show_warnings
               /\ w_last' = [op |-> "exit", raised |-> raised, frame |-> frame]
        /\ sw_stack' = SubSeq(sw_stack, 1, Len(sw_stack) - 1)
        /\ UNCHANGED <<heap, registry, w_installed>>
        /\ WarnFrame

\* A caller calls warning(): warnings.warn with the category ColourWarning,
\* always from the same place.
Warning ==
    /\ WarnStep
    /\ LET action == ActionFor(Filters, "ColourWarning")
       IN  IF registry
           THEN /\ w_last' = [op |-> "warning", result |-> "seen", returned |-> TRUE]
                /\ UNCHANGED registry
           ELSE IF action = "ignore"
           THEN /\ w_last' = [op |-> "warning", result |-> "ignored", returned |-> TRUE]
                /\ UNCHANGED registry
           ELSE /\ w_last' = [op |-> "warning", result |-> "shown",
                              by |-> warnings_showwarning, returned |-> TRUE]
                /\ registry' = TRUE
    /\ UNCHANGED <<warnings_filters, heap, warnings_showwarning, sw_stack, w_installed>>
    /\ WarnFrame

\* A caller, in a with-block or not, replaces the warnings.showwarning hook.
SetShowwarning ==
    \E hook \in Hooks :
        /\ WarnStep
        /\ hook # warnings_showwarning
        /\ warnings_showwarning' = hook
        /\ w_last' = [op |-> "showwarning", hook |-> hook]
        /\ UNCHANGED <<warnings_filters, heap, registry, sw_stack, w_installed>>
        /\ WarnFrame

WarnNext == FilterWarnings \/ SuppressEnter \/ SuppressExit \/ Warning \/ SetShowwarning

----------------------------------------------------------------------------
(* Properties of the warning filters.                                      *)

\* C4: after a with-block of suppress_warnings is left, normally or by an
\* exception, the contents of warnings.filters and the warnings.showwarning
\* hook are those of immediately before the block was entered.
C4_SuppressRestores ==
    w_last.op = "exit" =>
        /\ Filters = w_last.frame.filters_at_entry
        /\ warnings_showwarning = w_last.frame.showwarning_at_entry

\* C7: filter_warnings(state, colour_warnings_only) returns True and puts
\* first the filter with the action 'ignore' for a true state and 'default'
\* for a false one, for ColourWarning when colour_warnings_only and for
\* Warning otherwise; the action applied to a ColourWarning is always the one
\* the most recent call installed, so a warning is shown again once
\* filter_warnings(False) follows a filter_warnings(True).
C7_FilterWarnings ==
    /\ w_last.op = "filter_warnings" =>
          /\ w_last.returned = TRUE
          /\ Head(Filters) =
                [action |-> IF w_last.state THEN "ignore" ELSE "default",
                 category |-> IF w_last.colour_warnings_only
                              THEN "ColourWarning" ELSE "Warning"]
          /\ w_installed = Head(Filters).action
    /\ w_installed # "none" =>
          ActionFor(Filters, "ColourWarning") = w_installed
    /\ (w_last.op = "warning" /\ w_installed = "ignore") =>
          w_last.result = "ignored"
    /\ (w_last.op = "warning" /\ w_installed = "default") =>
          w_last.result # "ignored"

\* A warning is shown although a filter ignoring ColourWarning was installed
\* earlier, a later call having installed 'default'.
C7_Witness ==
    /\ w_last.op = "warning"
    /\ w_last.result = "shown"
    /\ w_installed = "default"
    /\ \E i \in 1..Len(Filters) : Filters[i] = Filter("ignore", "ColourWarning")

----------------------------------------------------------------------------
(* numpy_print_options (colour/utilities/verbose.py).                      *)
(*                                                                         *)
(* Numpy's print options are a dictionary.  np.set_printoptions changes    *)
(* the options it is given a value other than None for, and always sets    *)
(* the formatter to its formatter argument, None when it is not given.     *)

OptionNames == {"precision", "suppress", "formatter"}

OptionValues(o) ==
    IF o = "precision" THEN {"8", "3"}
    ELSE IF o = "suppress" THEN {"False", "True"}
    ELSE {"None", "fmt"}

\* The dictionaries of print options.
PrintOptions == {opts \in [OptionNames -> {"8", "3", "False", "True", "None", "fmt"}] :
                    \A o \in OptionNames : opts[o] \in OptionValues(o)}

\* The keyword arguments of a call: "None" for an option left out.
AllKwargs == {kw \in [OptionNames -> {"8", "3", "False", "True", "None", "fmt"}] :
                 \A o \in OptionNames : kw[o] \in OptionValues(o) \cup {"None"}}

\* The number of options a call is given, of blocks nested and of operations
\* explored.
NpMaxGiven == 1
NpMaxDepth == 2
NpMaxSteps == 4

NpKwargs == {kw \in AllKwargs :
                Cardinality({o \in OptionNames : kw[o] # "None"}) <= NpMaxGiven}

\* np.get_printoptions(): a copy of the options.
get_printoptions(options) == options

\* np.set_printoptions(**kwargs): the options it leaves.
set_printoptions(options, kwargs) ==
    [o \in OptionNames |->
        IF o = "formatter" THEN kwargs[o]
        ELSE IF kwargs[o] # "None" THEN kwargs[o]
        ELSE options[o]]

\* The options saved once the arguments are already in effect.
SavedOptions_after_set(options, kwargs) ==
    get_printoptions(set_printoptions(options, kwargs))

\* What numpy_print_options keeps in its local variable options.
SavedOptions(options, kwargs) == get_printoptions(options)

NpStep == np_steps < NpMaxSteps /\ np_steps' = np_steps + 1

\* A with-block of numpy_print_options(**kwargs) is entered: the code up to
\* the yield.
NpEnter ==
    \E kwargs \in NpKwargs :
        /\ NpStep
        /\ Len(np_stack) < NpMaxDepth
        /\ np_stack' = Append(np_stack,
                [options |-> SavedOptions(np_options, kwargs),
                 at_entry |-> np_options])
        /\ np_options' = set_printoptions(np_options, kwargs)
        /\ np_last' = [op |-> "enter", kwargs |-> kwargs, before |-> np_options]
        /\ NpFrame

\* The innermost with-block is left, normally or by an exception raised in
\* its body: the finally clause.
NpExit ==
    \E raised \in BOOLEAN :
        /\ NpStep
        /\ np_stack # << >>
        /\ LET frame == np_stack[Len(np_stack)]
           IN  /\ np_options' = set_printoptions(np_options, frame.options)
               /\ np_last' = [op |-> "exit", raised |-> raised, frame |-> frame]
        /\ np_stack' = SubSeq(np_stack, 1, Len(np_stack) - 1)
        /\ NpFrame

\* A caller, in a with-block or not, calls np.set_printoptions(**kwargs).
NpSetPrintoptions ==
    \E kwargs \in NpKwargs :
        /\ NpStep
        /\ np_options' = set_printoptions(np_options, kwargs)
        /\ np_last' = [op |-> "set", kwargs |-> kwargs]
        /\ UNCHANGED np_stack
        /\ NpFrame

NpNext == NpEnter \/ NpExit \/ NpSetPrintoptions

----------------------------------------------------------------------------
(* Properties of numpy_print_options.                                      *)

\* C5 (as stated): inside the with-block the print options are those in
\* effect before entry updated with the given arguments, and after the block
\* is left, normally or by an exception, they equal those in effect before
\* entry.
C5_ScopedChange ==
    /\ np_last.op = "enter" =>
          np_options = [o \in OptionNames |->
                           IF np_last.kwargs[o] # "None" THEN np_last.kwargs[o]
                           ELSE np_last.before[o]]
    /\ np_last.op = "exit" => np_options = np_last.frame.at_entry

\* C5 (amended): inside the with-block the print options are those in effect
\* before entry updated with the given arguments, except that the formatter
\* is the one given, None when none is given; after the block is left,
\* normally or by an exception, the options equal those in effect before
\* entry, formatter included; nested blocks unwind in reverse order, each
\* exit restoring the options of the entry of the innermost block still open.
C5_ScopedChangeFormatterReset ==
    /\ np_last.op = "enter" =>
          np_options = [o \in OptionNames |->
                           IF o = "formatter" THEN np_last.kwargs[o]
                           ELSE IF np_last.kwargs[o] # "None" THEN np_last.kwargs[o]
                           ELSE np_last.before[o]]
    /\ np_last.op = "exit" => np_options = np_last.frame.at_entry

\* An inner block is left by an exception, the outer one still open, and the
\* options go back to those the body of the outer block had set.
C5_Witness ==
    /\ np_last.op = "exit"
    /\ np_last.raised
    /\ Len(np_stack) = 1
    /\ np_last.frame.at_entry # np_stack[1].at_entry
    /\ np_options = np_last.frame.at_entry
    /\ np_options["formatter"] = "fmt"

----------------------------------------------------------------------------
(* message_box (colour/utilities/verbose.py).                              *)
(*                                                                         *)
(* A string is a sequence of characters.                                   *)

\* character * n: the empty string when n is not positive.
Repeat(character, n) == IF n <= 0 THEN << >> ELSE [i \in 1..n |-> character]

IsSpace(character) == character \in {" ", "\t", "\n"}

\* message.split("\n")
RECURSIVE SplitLines(_, _)
SplitLines(message, line) ==
    IF message = << >> THEN <<line>>
    ELSE IF Head(message) = "\n" THEN <<line>> \o SplitLines(Tail(message), << >>)
    ELSE SplitLines(Tail(message), Append(line, Head(message)))

\* str.expandtabs(): each tab becomes the spaces up to the next multiple of
\* eight columns.
RECURSIVE ExpandTabsFrom(_, _)
ExpandTabsFrom(text, done) ==
    IF text = << >> THEN done
    ELSE IF Head(text) = "\t"
    THEN ExpandTabsFrom(Tail(text), done \o Repeat(" ", 8 - (Len(done) % 8)))
    ELSE ExpandTabsFrom(Tail(text), Append(done, Head(text)))

expandtabs(text) == ExpandTabsFrom(text, << >>)

\* TextWrapper._split: the text cut into chunks, each a run of whitespace or
\* a run of other characters.
RECURSIVE SplitChunks(_, _, _)
SplitChunks(text, chunks, chunk) ==
    IF text = << >> THEN (IF chunk = << >> THEN chunks ELSE Append(chunks, chunk))
    ELSE IF chunk = << >> \/ IsSpace(chunk[1]) = IsSpace(Head(text))
    THEN SplitChunks(Tail(text), chunks, Append(chunk, Head(text)))
    ELSE SplitChunks(Tail(text), Append(chunks, chunk), <<Head(text)>>)

\* The inner loop of TextWrapper._wrap_chunks: chunks are taken while they fit.
RECURSIVE FillLine(_, _, _, _)
FillLine(chunks, cur_line, cur_len, width) ==
    IF chunks # << >> /\ cur_len + Len(Head(chunks)) <= width
    THEN FillLine(Tail(chunks), Append(cur_line, Head(chunks)),
                  cur_len + Len(Head(chunks)), width)
    ELSE [cur_line |-> cur_line, chunks |-> chunks]

RECURSIVE Join(_)
Join(chunks) == IF chunks = << >> THEN << >> ELSE Head(chunks) \o Join(Tail(chunks))

\* TextWrapper._wrap_chunks with break_long_words=False and
\* drop_whitespace=True, for a width > 0.
RECURSIVE WrapChunks(_, _, _)
WrapChunks(chunks, lines, width) ==
    IF chunks = << >> THEN lines
    ELSE LET \* whitespace starting a line other than the first is dropped
             kept == IF IsSpace(Head(chunks)[1]) /\ lines # << >>
                     THEN Tail(chunks) ELSE chunks
             filled == FillLine(kept, << >>, 0, width)
             \* _handle_long_word: a chunk too long for any line is put on a
             \* line of its own
             long == /\ filled.chunks # << >>
                     /\ Len(Head(filled.chunks)) > width
                     /\ filled.cur_line = << >>
             cur_line == IF long THEN <<Head(filled.chunks)>> ELSE filled.cur_line
             rest == IF long THEN Tail(filled.chunks) ELSE filled.chunks
             \* whitespace ending a line is dropped
             stripped == IF cur_line # << >> /\ IsSpace(cur_line[Len(cur_line)][1])
                         THEN SubSeq(cur_line, 1, Len(cur_line) - 1)
                         ELSE cur_line
         IN  WrapChunks(rest,
                        IF stripped # << >> THEN Append(lines, Join(stripped))
                        ELSE lines,
                        width)

\* TextWrapper(width=width, break_long_words=False,
\* replace_whitespace=False).wrap(text), for a width > 0.
wrap(text, width) == WrapChunks(SplitChunks(expandtabs(text), << >>, << >>), << >>, width)

\* inner(text): '*{0}{1}{2}{0}*'.format(' ' * padding, text,
\* ' ' * (width - len(text) - padding * 2 - 2))
inner(text, width, padding) ==
    <<"*">> \o Repeat(" ", padding) \o text
        \o Repeat(" ", width - Len(text) - padding * 2 - 2)
        \o Repeat(" ", padding) \o <<"*">>

\* lines = [wrapper.wrap(line) for line in message.split("\n")], then
\* [' ' if len(line) == 0 else line for line in lines], then chain(*lines):
\* iterating the string ' ' gives the one-character line ' '.
RECURSIVE ChainLines(_, _)
ChainLines(message_lines, ideal_width) ==
    IF message_lines = << >> THEN << >>
    ELSE LET wrapped == wrap(Head(message_lines), ideal_width)
         IN  (IF Len(wrapped) = 0 THEN << <<" ">> >> ELSE wrapped)
                 \o ChainLines(Tail(message_lines), ideal_width)

\* What message_box(message, width, padding, print_callable) prints and
\* whether it returns: TextWrapper.wrap raises ValueError for a width that is
\* not positive, the first two lines being printed already.
message_box(message, width, padding) ==
    LET ideal_width == width - padding * 2 - 2
        head == <<Repeat("=", width), inner(<< >>, width, padding)>>
        lines == ChainLines(SplitLines(message, << >>), ideal_width)
    IN  IF ideal_width <= 0
        THEN [printed |-> head, raised |-> TRUE]
        ELSE [printed |->
                  head
                  \o [i \in 1..Len(lines) |-> inner(expandtabs(lines[i]), width, padding)]
                  \o <<inner(<< >>, width, padding), Repeat("=", width)>>,
              raised |-> FALSE]

\* The messages, widths and paddings explored.
BoxChars == {"a", "b", " ", "\n", "\t"}
MaxMsgLen == 4
BoxMaxWidth == 8
BoxMaxPadding == 2

Messages == UNION {[1..n -> BoxChars] : n \in 0..MaxMsgLen}

\* A caller calls message_box(message, width, padding, print_callable).
MessageBox ==
    /\ box_pc = "call"
    /\ LET r == message_box(box_message, box_width, box_padding)
       IN  /\ box_printed' = r.printed
           /\ box_pc' = IF r.raised THEN "raised" ELSE "returned"
           /\ box_returned' = ~r.raised
    /\ UNCHANGED <<box_message, box_width, box_padding>>
    /\ BoxFrame

BoxNext == MessageBox

\* C6: for every message, width and padding, message_box returns True and
\* prints '=' * width, an empty inner line, the inner lines of the message,
\* an empty inner line and '=' * width; every line printed has exactly width
\* characters, and an inner line starts and ends with '*' and has padding
\* spaces after the leading '*'.
C6_ConstantWidthBox ==
    box_pc # "call" =>
        /\ box_returned
        /\ Len(box_printed) >= 4
        /\ box_printed[1] = Repeat("=", box_width)
        /\ box_printed[Len(box_printed)] = Repeat("=", box_width)
        /\ \A i \in 1..Len(box_printed) : Len(box_printed[i]) = box_width
        /\ \A i \in 2..(Len(box_printed) - 1) :
              /\ box_printed[i][1] = "*"
              /\ box_printed[i][Len(box_printed[i])] = "*"
              /\ \A k \in 1..box_padding : box_printed[i][1 + k] = " "

----------------------------------------------------------------------------
(* OSA UCS (colour/models/osa_ucs.py).                                     *)
(*                                                                         *)
(* Tristimulus values are integers of the domain [0, 100]; Ljg values and  *)
(* the intermediate quantities are fixed-point thousandths.  An array is   *)
(* its shape and its elements in row-major order.                          *)

\* The scale of the OSA UCS quantities: one limb.
OS == Base

\* The floating-point value nan, which a negative base of a fractional power
\* and a division of zero by zero give.
NaN == -(2000 * RS)
IsNaN(v) == v = NaN

Sign(v) == IF v > 0 THEN 1 ELSE IF v < 0 THEN -1 ELSE 0

\* a / b, rounded down; nan for a nan operand or a zero divisor.
SDiv(a, b) ==
    IF IsNaN(a) \/ IsNaN(b) \/ b = 0 THEN NaN
    ELSE IF b > 0 THEN a \div b ELSE (-a) \div (-b)

\* v ** (1 / 3): nan for a negative v.
Cbrt(v) ==
    IF IsNaN(v) \/ v < 0 THEN NaN ELSE FPowAt(v, 1, 3, 1, 10 * OS)

\* 2 ** (1 / 2)
Sqrt2 == FPowAt(2 * OS, 1, 2, 1, 2 * OS)

\* M_XYZ_TO_RGB_OSA_UCS, in ten-thousandths.
M_XYZ_TO_RGB_OSA_UCS ==
    << <<7990, 4194, -1648>>,
       <<-4493, 13265, 927>>,
       <<-1149, 3394, 7170>> >>

\* dot_vector(m, v)
dot_vector(m, v) ==
    [i \in 1..3 |-> m[i][1] * v[1] + m[i][2] * v[2] + m[i][3] * v[3]]

\* XYZ_to_xyY(XYZ): x = X / (X + Y + Z), y = Y / (X + Y + Z), kept as the
\* numerators and the common denominator.
XYZ_to_xyY(XYZ) ==
    [x |-> XYZ[1], y |-> XYZ[2], sum |-> XYZ[1] + XYZ[2] + XYZ[3], Y |-> XYZ[2]]

\* Y * (4.4934 * x ** 2 + 4.3034 * y ** 2 - 4.276 * x * y - 1.3744 * x
\*      - 2.5643 * y + 1.8103), in thousandths.
Y_0_of(xyY) ==
    LET n == 44934 * xyY.x * xyY.x + 43034 * xyY.y * xyY.y
             - 42760 * xyY.x * xyY.y - 13744 * xyY.x * xyY.sum
             - 25643 * xyY.y * xyY.sum + 18103 * xyY.sum * xyY.sum
        d == 10 * xyY.sum * xyY.sum
        q == LET num == BigMulSmall(BigMulSmall(<<1>>, Abs(n)), xyY.Y)
             IN  BigDivSmallFrom(num, d, Len(num), 0, 0)
    IN  IF xyY.sum = 0 THEN NaN ELSE Sign(n) * q

\* The RGB ** (1 / 3) of RGB = dot_vector(M_XYZ_TO_RGB_OSA_UCS, XYZ).
RGB_3_of(XYZ) ==
    LET RGB == dot_vector(M_XYZ_TO_RGB_OSA_UCS, XYZ)
    IN  [i \in 1..3 |-> Cbrt(SDiv(RGB[i], 10))]

\* np.dot(RGB_3, weights), the weights in tenths.
Dot3(RGB_3, weights) ==
    IF \E i \in 1..3 : IsNaN(RGB_3[i]) THEN NaN
    ELSE SDiv(RGB_3[1] * weights[1] + RGB_3[2] * weights[2] + RGB_3[3] * weights[3], 10)

\* XYZ_to_OSA_UCS(XYZ) for one tristimulus value.
XYZ_to_OSA_UCS(XYZ) ==
    LET Y_0 == Y_0_of(XYZ_to_xyY(XYZ))
        Y_0_es == IF IsNaN(Cbrt(Y_0)) THEN NaN ELSE Cbrt(Y_0) - (2 * OS) \div 3
        Y_0_s == IF IsNaN(Y_0) THEN NaN ELSE Y_0 - 30 * OS
        Lambda == IF IsNaN(Y_0_es) THEN NaN
                  ELSE (59 * (Y_0_es + Sign(Y_0_s) * ((42 * Cbrt(Abs(Y_0_s))) \div 1000)))
                           \div 10
        RGB_3 == RGB_3_of(XYZ)
        C == IF IsNaN(Lambda) THEN NaN ELSE SDiv(Lambda * OS, (59 * Y_0_es) \div 10)
        L == IF IsNaN(Lambda) THEN NaN ELSE SDiv((Lambda - 14400) * OS, Sqrt2)
        dj == Dot3(RGB_3, <<17, 80, -97>>)
        dg == Dot3(RGB_3, <<-137, 177, -40>>)
        j == IF IsNaN(C) \/ IsNaN(dj) THEN NaN ELSE SDiv(C * dj, OS)
        g == IF IsNaN(C) \/ IsNaN(dg) THEN NaN ELSE SDiv(C * dg, OS)
    IN  <<L, j, g>>

\* The tristimulus values explored: each component one of 10, 30, ...
OsaGridN == 2
OsaGrid == {10 + 20 * k : k \in 0..OsaGridN}
OsaTriples == OsaGrid \X OsaGrid \X OsaGrid

\* The transform of every tristimulus value explored, tabulated.
OsaTable == [XYZ \in OsaTriples |-> XYZ_to_OSA_UCS(XYZ)] @@ << >>

\* An array: its shape and its elements in row-major order.
Array(shape, data) == [shape |-> shape, data |-> data]

RECURSIVE Flatten(_)
Flatten(rows) == IF rows = << >> THEN << >> ELSE Head(rows) \o Flatten(Tail(rows))

\* a.reshape((-1, 3)): the rows of three elements.
Rows(a) == [i \in 1..(Len(a.data) \div 3) |-> SubSeq(a.data, 3 * i - 2, 3 * i)]

\* XYZ_to_OSA_UCS on an array of shape (..., 3): every tristimulus value is
\* transformed, the shape kept.
XYZ_to_OSA_UCS_array(XYZ) ==
    Array(XYZ.shape, Flatten([i \in 1..Len(Rows(XYZ)) |-> OsaTable[Rows(XYZ)[i]]]))

RECURSIVE IsqrtSearch(_, _, _)
IsqrtSearch(n, lo, hi) ==
    IF lo = hi THEN lo
    ELSE LET mid == (lo + hi + 1) \div 2
         IN  IF mid * mid <= n THEN IsqrtSearch(n, mid, hi)
             ELSE IsqrtSearch(n, lo, mid - 1)

\* floor(n ** (1 / 2)) for 0 <= n, the operand evaluated once.
Isqrt(n) == CHOOSE r \in {IsqrtSearch(m, 0, 40000) : m \in {n}} : TRUE

\* np.linalg.norm(v), to a hundredth; nan when a component is nan.
norm(v) ==
    IF \E k \in 1..3 : IsNaN(v[k]) THEN NaN
    ELSE 10 * Isqrt((Abs(v[1]) \div 10) * (Abs(v[1]) \div 10)
                        + (Abs(v[2]) \div 10) * (Abs(v[2]) \div 10)
                        + (Abs(v[3]) \div 10) * (Abs(v[3]) \div 10))

\* function_error(XYZ, Ljg): np.linalg.norm(XYZ_to_OSA_UCS(XYZ) - Ljg)
function_error(XYZ, Ljg) ==
    norm([k \in 1..3 |->
            IF IsNaN(OsaTable[XYZ][k]) \/ IsNaN(Ljg[k]) THEN NaN
            ELSE OsaTable[XYZ][k] - Ljg[k]])

\* The points a minimisation may move to, in a fixed order.
OsaCandidates ==
    LET n == OsaGridN + 1
    IN  [i \in 1..(n * n * n) |->
            <<10 + 20 * ((i - 1) \div (n * n)),
              10 + 20 * (((i - 1) \div n) % n),
              10 + 20 * ((i - 1) % n)>>]

\* x_0 = np.array([30, 30, 30])
x_0 == <<30, 30, 30>>

\* The points visited by a minimisation, each with the value of the function
\* there.
Visited(Ljg) ==
    {<<i, function_error(OsaCandidates[i], Ljg)>> : i \in DOMAIN OsaCandidates}

\* Where a search from start ends: it moves to a point only when the function
\* is smaller there, a comparison that is false when either value is nan, and
\* so ends on the first of the visited points where the function is the
\* smallest, or stays at start.
Smallest(start, error_0, visited) ==
    LET smaller == {p \in visited :
                       ~IsNaN(p[2]) /\ ~IsNaN(error_0) /\ p[2] < error_0}
    IN  IF smaller = {} THEN start
        ELSE OsaCandidates[
                 (CHOOSE p \in smaller :
                      \A q \in smaller :
                          p[2] < q[2] \/ (p[2] = q[2] /\ p[1] <= q[1]))[1]]

\* The search of scipy.optimize.fmin from start.
FminFrom(start, Ljg) ==
    CHOOSE x \in {Smallest(start, error_0, visited) :
                     error_0 \in {function_error(start, Ljg)},
                     visited \in {Visited(Ljg)}} : TRUE

\* fmin(function_error, x_0, (Ljg, ), **options): no move is made when the
\* options allow no iteration.
fmin(start, Ljg, options) ==
    IF "maxiter" \in DOMAIN options /\ options["maxiter"] = 0 THEN start
    ELSE FminFrom(start, Ljg)


\* dict.update: the items of other replace or extend those of settings.
Update(settings, other) ==
    [k \in DOMAIN settings \cup DOMAIN other |->
        IF k \in DOMAIN other THEN other[k] ELSE settings[k]]

\* The settings with the caller's parameters overridden by the defaults.
optimisation_settings_defaults_last(optimisation_parameters) ==
    IF optimisation_parameters.none THEN [disp |-> FALSE]
    ELSE Update(optimisation_parameters.dict, [disp |-> FALSE])

\* optimisation_settings: {'disp': False}, updated with the caller's
\* optimisation_parameters when they are not None.
optimisation_settings(optimisation_parameters) ==
    IF optimisation_parameters.none THEN [disp |-> FALSE]
    ELSE Update([disp |-> FALSE], optimisation_parameters.dict)

\* The caller's dictionary once OSA_UCS_to_XYZ has returned: the code updates
\* its own dictionary only.
ParametersAfter(optimisation_parameters) == optimisation_parameters

\* The loop over Ljg_i from the i-th row on: every call of fmin made, with
\* its arguments and its result.
RECURSIVE FminCalls(_, _, _)
FminCalls(rows, settings, i) ==
    IF i > Len(rows) THEN << >>
    ELSE << [x_0 |-> x_0, args |-> rows[i], options |-> settings,
             result |-> fmin(x_0, rows[i], settings)] >>
             \o FminCalls(rows, settings, i + 1)

\* OSA_UCS_to_XYZ(Ljg, optimisation_parameters): the array returned and the
\* calls of fmin made.
OSA_UCS_to_XYZ(Ljg, optimisation_parameters) ==
    CHOOSE r \in
        {[out |-> Array(Ljg.shape, Flatten([i \in 1..Len(calls) |-> calls[i].result])),
          calls |-> calls] :
             calls \in {FminCalls(Rows(Ljg),
                                  optimisation_settings(optimisation_parameters), 1)}} :
        TRUE

\* The parameters a caller passes: None or a dictionary.
NoParameters == [none |-> TRUE, dict |-> [k \in {} |-> 0]]
Parameters(dict) == [none |-> FALSE, dict |-> dict]
OsaParameters ==
    { NoParameters,
      Parameters([k \in {} |-> 0]),
      Parameters([disp |-> TRUE]),
      Parameters([maxiter |-> 0]) }

\* The rows of the arrays of more than one row.
OsaRowTriples == {XYZ \in OsaTriples : XYZ[2] = 10 /\ XYZ[3] = 10}

OsaInputs ==
    {Array(<<3>>, XYZ) : XYZ \in OsaTriples}
        \cup {Array(<<2, 3>>, a \o b) : a \in OsaRowTriples, b \in OsaRowTriples}
        \cup {Array(<<1, 2, 3>>, a \o b) : a \in OsaRowTriples, b \in OsaRowTriples}

\* A caller converts the tristimulus values.
OsaConvert ==
    /\ osa_pc = "start"
    /\ osa_Ljg' = XYZ_to_OSA_UCS_array(osa_XYZ)
    /\ osa_pc' = "converted"
    /\ UNCHANGED <<osa_XYZ, osa_out, osa_given, osa_params, osa_calls>>
    /\ OsaFrame

\* A caller converts the Ljg values back.
OsaInvert ==
    /\ osa_pc = "converted"
    /\ \E r \in {OSA_UCS_to_XYZ(osa_Ljg, osa_params)} :
           /\ osa_out' = r.out
           /\ osa_calls' = r.calls
    /\ osa_params' = ParametersAfter(osa_params)
    /\ osa_pc' = "inverted"
    /\ UNCHANGED <<osa_XYZ, osa_Ljg, osa_given>>
    /\ OsaFrame

OsaNext == OsaConvert \/ OsaInvert

\* C1: for every tristimulus value of the domain [0, 100], converting to
\* OSA UCS and back with the default optimisation recovers the value within
\* the tolerance.
C1_RoundTrip ==
    (osa_pc = "inverted" /\ "maxiter" \notin DOMAIN osa_given.dict) =>
        /\ Len(osa_out.data) = Len(osa_XYZ.data)
        /\ \A k \in 1..Len(osa_XYZ.data) : Abs(osa_out.data[k] - osa_XYZ.data[k]) <= 1

\* C10: OSA_UCS_to_XYZ returns an array of the shape of its input; the i-th
\* triple of it is the result of one call of fmin on the i-th Ljg triple,
\* started from x_0 = [30, 30, 30], and is what the triple alone converts to;
\* the options of every call are {'disp': False} overridden by the caller's
\* optimisation_parameters, and the caller's dictionary is as it was given.
C10_ShapeAndIndependence ==
    osa_pc = "inverted" =>
        /\ osa_out.shape = osa_Ljg.shape
        /\ Len(osa_out.data) = Len(osa_Ljg.data)
        /\ Len(osa_calls) * 3 = Len(osa_Ljg.data)
        /\ \A i \in 1..Len(osa_calls) :
              /\ osa_calls[i].x_0 = <<30, 30, 30>>
              /\ osa_calls[i].args = SubSeq(osa_Ljg.data, 3 * i - 2, 3 * i)
              /\ DOMAIN osa_calls[i].options = {"disp"} \cup DOMAIN osa_given.dict
              /\ \A k \in DOMAIN osa_given.dict :
                    osa_calls[i].options[k] = osa_given.dict[k]
              /\ "disp" \notin DOMAIN osa_given.dict => osa_calls[i].options["disp"] = FALSE
              /\ SubSeq(osa_out.data, 3 * i - 2, 3 * i) = osa_calls[i].result
              /\ osa_calls[i].result =
                     OSA_UCS_to_XYZ(Array(<<3>>, osa_calls[i].args), osa_given).out.data
        /\ osa_params = osa_given

\* Two different triples are converted back in one call, the caller asking
\* fmin to display its messages.
C10_Witness ==
    /\ osa_pc = "inverted"
    /\ osa_Ljg.shape = <<1, 2, 3>>
    /\ osa_given = Parameters([disp |-> TRUE])
    /\ Len(osa_calls) = 2
    /\ osa_calls[1].options["disp"] = TRUE
    /\ osa_calls[1].result = <<10, 10, 10>>
    /\ osa_calls[2].result = <<30, 10, 10>>
    /\ osa_out.data = <<10, 10, 10, 30, 10, 10>>

----------------------------------------------------------------------------
(* Specifications: each one runs one part of the library, from the states  *)
(* a caller can put it in, the variables of the other parts staying as     *)
(* they start.                                                             *)

RecSpecInit ==
    /\ rec_pc = "idle"
    /\ rec_value \in RecInputs
    /\ rec_bits \in BOOLEAN
    /\ rec_encoded = 0
    /\ rec_decoded = 0
    /\ rec_fwd = "none"
    /\ rec_inv = "none"
    /\ warnings_filters = "list0" /\ heap = [r \in {"list0"} |-> << >>]
    /\ warnings_showwarning = "showwarning" /\ registry = FALSE
    /\ sw_stack = << >> /\ w_last = [op |-> "none"] /\ w_installed = "none"
    /\ w_steps = 0
    /\ np_options = [precision |-> "8", suppress |-> "False", formatter |-> "None"]
    /\ np_stack = << >> /\ np_last = [op |-> "none"] /\ np_steps = 0
    /\ box_pc = "call" /\ box_message = << >> /\ box_width = 0 /\ box_padding = 0
    /\ box_printed = << >> /\ box_returned = FALSE
    /\ osa_pc = "start" /\ osa_XYZ = Array(<<3>>, x_0) /\ osa_Ljg = Array(<<0>>, << >>)
    /\ osa_out = Array(<<0>>, << >>) /\ osa_given = NoParameters
    /\ osa_params = NoParameters /\ osa_calls = << >>

SpecRec == RecSpecInit /\ [][RecNext]_vars

WarnSpecInit ==
    /\ rec_pc = "idle" /\ rec_value = 0 /\ rec_bits = TRUE /\ rec_encoded = 0
    /\ rec_decoded = 0 /\ rec_fwd = "none" /\ rec_inv = "none"
    /\ warnings_filters = "list0"
    /\ heap \in [{"list0"} -> WarnInitialFilters]
    /\ warnings_showwarning = "showwarning"
    /\ registry = FALSE
    /\ sw_stack = << >>
    /\ w_last = [op |-> "none"]
    /\ w_installed = "none"
    /\ w_steps = 0
    /\ np_options = [precision |-> "8", suppress |-> "False", formatter |-> "None"]
    /\ np_stack = << >> /\ np_last = [op |-> "none"] /\ np_steps = 0
    /\ box_pc = "call" /\ box_message = << >> /\ box_width = 0 /\ box_padding = 0
    /\ box_printed = << >> /\ box_returned = FALSE
    /\ osa_pc = "start" /\ osa_XYZ = Array(<<3>>, x_0) /\ osa_Ljg = Array(<<0>>, << >>)
    /\ osa_out = Array(<<0>>, << >>) /\ osa_given = NoParameters
    /\ osa_params = NoParameters /\ osa_calls = << >>

SpecWarn == WarnSpecInit /\ [][WarnNext]_vars

NpSpecInit ==
    /\ rec_pc = "idle" /\ rec_value = 0 /\ rec_bits = TRUE /\ rec_encoded = 0
    /\ rec_decoded = 0 /\ rec_fwd = "none" /\ rec_inv = "none"
    /\ warnings_filters = "list0" /\ heap = [r \in {"list0"} |-> << >>]
    /\ warnings_showwarning = "showwarning" /\ registry = FALSE
    /\ sw_stack = << >> /\ w_last = [op |-> "none"] /\ w_installed = "none"
    /\ w_steps = 0
    /\ np_options \in PrintOptions
    /\ np_stack = << >>
    /\ np_last = [op |-> "none"]
    /\ np_steps = 0
    /\ box_pc = "call" /\ box_message = << >> /\ box_width = 0 /\ box_padding = 0
    /\ box_printed = << >> /\ box_returned = FALSE
    /\ osa_pc = "start" /\ osa_XYZ = Array(<<3>>, x_0) /\ osa_Ljg = Array(<<0>>, << >>)
    /\ osa_out = Array(<<0>>, << >>) /\ osa_given = NoParameters
    /\ osa_params = NoParameters /\ osa_calls = << >>

SpecNp == NpSpecInit /\ [][NpNext]_vars

BoxSpecInit ==
    /\ rec_pc = "idle" /\ rec_value = 0 /\ rec_bits = TRUE /\ rec_encoded = 0
    /\ rec_decoded = 0 /\ rec_fwd = "none" /\ rec_inv = "none"
    /\ warnings_filters = "list0" /\ heap = [r \in {"list0"} |-> << >>]
    /\ warnings_showwarning = "showwarning" /\ registry = FALSE
    /\ sw_stack = << >> /\ w_last = [op |-> "none"] /\ w_installed = "none"
    /\ w_steps = 0
    /\ np_options = [precision |-> "8", suppress |-> "False", formatter |-> "None"]
    /\ np_stack = << >> /\ np_last = [op |-> "none"] /\ np_steps = 0
    /\ box_pc = "call"
    /\ box_message \in Messages
    /\ box_width \in 4..BoxMaxWidth
    /\ box_padding \in 0..BoxMaxPadding
    /\ box_printed = << >>
    /\ box_returned = FALSE
    /\ osa_pc = "start" /\ osa_XYZ = Array(<<3>>, x_0) /\ osa_Ljg = Array(<<0>>, << >>)
    /\ osa_out = Array(<<0>>, << >>) /\ osa_given = NoParameters
    /\ osa_params = NoParameters /\ osa_calls = << >>

SpecBox == BoxSpecInit /\ [][BoxNext]_vars

OsaSpecInit ==
    /\ rec_pc = "idle" /\ rec_value = 0 /\ rec_bits = TRUE /\ rec_encoded = 0
    /\ rec_decoded = 0 /\ rec_fwd = "none" /\ rec_inv = "none"
    /\ warnings_filters = "list0" /\ heap = [r \in {"list0"} |-> << >>]
    /\ warnings_showwarning = "showwarning" /\ registry = FALSE
    /\ sw_stack = << >> /\ w_last = [op |-> "none"] /\ w_installed = "none"
    /\ w_steps = 0
    /\ np_options = [precision |-> "8", suppress |-> "False", formatter |-> "None"]
    /\ np_stack = << >> /\ np_last = [op |-> "none"] /\ np_steps = 0
    /\ box_pc = "call" /\ box_message = << >> /\ box_width = 0 /\ box_padding = 0
    /\ box_printed = << >> /\ box_returned = FALSE
    /\ osa_pc = "start"
    /\ osa_XYZ \in OsaInputs
    /\ osa_Ljg = Array(<<0>>, << >>)
    /\ osa_out = Array(<<0>>, << >>)
    /\ osa_given \in OsaParameters
    /\ osa_params = osa_given
    /\ osa_calls = << >>

SpecOsa == OsaSpecInit /\ [][OsaNext]_vars

====
